---- MODULE Spec2Model ----
(***************************************************************************)
(* Batch enrichment pipeline of El Vigilante:                              *)
(*   src/llm_processor.py            cache, call_llm, generation functions *)
(*   src/process_with_llm_parallel.py  the parallel JSONL driver           *)
(* A document is a Python dict, modelled as a function from its keys to    *)
(* their values.  A text is a sequence of one-character strings.  The      *)
(* objects of the loaded batch are shared by reference between documents,  *)
(* to_process, the futures and processed_results, so those collections     *)
(* hold positions of the documents list.                                   *)
(***************************************************************************)
EXTENDS Integers, Sequences, FiniteSets, TLC

\* ------------------------------------------------------------------ bounds
MaxDocs == 3
MaxPair == 2
MaxWorkers == 2
MaxFaulty == 1
MaxOutage == 3
MaxRuns == 2
MaxText == 4
MaxBudget == 3

\* ------------------------------------------------------- program constants
RetryAttempts == 3
SummaryExcerpt == 500
NotesExcerpt == 400
MaxChars == 2000
MaxKeywords == 8
MaxGroups == 3

\* ------------------------------------------------------------ dict helpers
Has(doc, k) == k \in DOMAIN doc

Put(doc, k, v) == [x \in DOMAIN doc \cup {k} |-> IF x = k THEN v ELSE doc[x]]

Del(doc, k) == [x \in DOMAIN doc \ {k} |-> doc[x]]

Min(a, b) == IF a < b THEN a ELSE b

\* text[:n]
Take(text, n) == SubSeq(text, 1, Min(n, Len(text)))

Range(s) == {s[x] : x \in DOMAIN s}

\* ---------------------------------------------------------------- inputs
Titles == {<<"A">>, <<"B">>}

RawText == <<"l", "e", "y">>

\* the text of another document
OtherText == <<"r", "e", "a", "l">>

Kinds == {"text", "empty", "enriched", "kept"}

Pending(title) == <<"[Pendiente de procesar] ">> \o title

\* A record as the scraper leaves it: full_text always present (possibly
\* empty), placeholder enrichment fields, no updated_at.
ScrapedDoc(id, title, text) ==
    [k \in {"id", "type", "title_original", "full_text", "text_length",
            "keywords", "summary_plain_es", "affects_to"} |->
        CASE k = "id" -> id
          [] k = "type" -> "orden"
          [] k = "title_original" -> title
          [] k = "full_text" -> text
          [] k = "text_length" -> Len(text)
          [] k = "keywords" -> <<<<"boe">>, <<"orden">>>>
          [] k = "summary_plain_es" -> Pending(title)
          [] k = "affects_to" -> <<"todos_ciudadanos">>]

\* A record as an earlier run of the pipeline wrote it: enriched, stamped,
\* full_text stripped ("enriched"); "kept" is such a record in a file that
\* still carries the text.
EnrichedDoc(id, title) ==
    Put(Put(Put(Del(ScrapedDoc(id, title, RawText), "full_text"),
                "summary_plain_es", <<"o", "l", "d">>),
            "transparency_notes", <<"n">>),
        "updated_at", 1)

MakeDoc(id, title, kind) ==
    CASE kind = "text" -> ScrapedDoc(id, title, RawText)
      [] kind = "empty" -> ScrapedDoc(id, title, <<>>)
      [] kind = "enriched" -> EnrichedDoc(id, title)
      [] kind = "kept" -> Put(EnrichedDoc(id, title), "full_text", RawText)
      [] kind = "other" -> ScrapedDoc(id, title, OtherText)
      [] kind = "blank" -> Put(EnrichedDoc(id, title), "short_title", <<>>)
      [] kind = "titled" -> Put(EnrichedDoc(id, title), "short_title", <<"s">>)

\* ------------------------------------------------------- service responses
\* A keyword is a word, a sequence of characters (a fixed word is written as
\* one unit).  A response text: json says whether the text holds a JSON array that
\* json.loads accepts, val is the decoded list (json) or the characters.
Plain(text) == [json |-> FALSE, val |-> text]

\* json.dumps(list)
Json(list) == [json |-> TRUE, val |-> list]

\* truthiness of a str: a JSON text is at least "[]"
NonEmpty(r) == r.json \/ r.val # <<>>

Requests == <<"summary", "keywords", "groups", "notes">>

Field(req) ==
    CASE req = "summary" -> "summary_plain_es"
      [] req = "keywords" -> "keywords"
      [] req = "groups" -> "affects_to"
      [] req = "notes" -> "transparency_notes"

\* What the external service may answer to a request of each kind.
Responses(req) ==
    CASE req = "summary" -> {Plain(<<>>), Plain(<<"r", "1">>), Plain(<<"r", "2">>)}
      [] req = "keywords" -> {Json(<<<<"k", "1">>, <<"k", "2">>>>)}
      [] req = "groups" -> {Json(<<"empresas">>)}
      [] req = "notes" -> {Plain(<<"w">>)}

\* the one answer of the steady service double
SteadyResponse(req) ==
    CASE req = "summary" -> Plain(<<"r", "1">>)
      [] req = "keywords" -> Json(<<<<"k", "1">>, <<"k", "2">>>>)
      [] req = "groups" -> Json(<<"empresas">>)
      [] req = "notes" -> Plain(<<"w">>)

\* the answer of a service double that never returns JSON
GarbledResponse == Plain(<<"n", "o">>)

\* the one answer of a service double whose lists are longer than asked for:
\* nine keywords, four groups
VerboseResponse(req) ==
    CASE req = "keywords" ->
            Json(<<<<"k", "1">>, <<"k", "2">>, <<"k", "3">>, <<"k", "4">>,
                   <<"k", "5">>, <<"k", "6">>, <<"k", "7">>, <<"k", "8">>,
                   <<"k", "9">>>>)
      [] req = "groups" ->
            Json(<<"empresas", "familias", "estudiantes", "pensionistas">>)
      [] OTHER -> SteadyResponse(req)

ServiceResponses(profile, req) ==
    CASE profile = "steady" -> {SteadyResponse(req)}
      [] profile = "verbose" -> {VerboseResponse(req)}
      [] profile = "garbled" -> {GarbledResponse}
      [] OTHER -> Responses(req)

\* for how many requests in a row the service may fail an invocation
Outages(profile) ==
    IF profile \in {"steady", "verbose"} THEN {0, MaxOutage} ELSE 0..MaxOutage

\* how a failing request fails: client.chat.completions.create raises
\* ("error"), or it returns a message whose content is None ("nocontent")
Faults(profile) ==
    IF profile = "garbled" THEN {"nocontent"} ELSE {"error"}

\* ----------------------------------------------------------------- prompts
Get(doc, k, default) == IF Has(doc, k) THEN doc[k] ELSE default

\* the user_prompt each generation function renders
UserPrompt(req, title, text) ==
    CASE req = "summary" -> <<"summary", title, Take(text, MaxChars)>>
      [] req = "keywords" -> <<"keywords", title, Take(text, SummaryExcerpt)>>
      [] req = "groups" -> <<"groups", title, Take(text, SummaryExcerpt)>>
      [] req = "notes" -> <<"notes", title, Take(text, NotesExcerpt)>>

\* a slice that keeps one character too many
excerpt_one_more(boe_text, max_chars) == Take(boe_text, max_chars + 1)

\* boe_text[:max_chars] if boe_text else "" (line 135)
boe_excerpt(boe_text, max_chars) ==
    IF boe_text # <<>> THEN Take(boe_text, max_chars) ELSE <<>>

\* the user_prompt of generate_plain_summary for its three arguments
SummaryPrompt(title, boe_text, max_chars) ==
    <<"summary", title, boe_excerpt(boe_text, max_chars)>>

\* a caller that passes the text of the document to generate_plain_summary
PromptWithText(req, doc) ==
    LET title == Get(doc, "title_original", <<>>) IN
    IF req = "summary" THEN UserPrompt(req, title, Get(doc, "full_text", <<>>))
    ELSE UserPrompt(req, title, doc["summary_plain_es"])

\* process_document_with_llm passes the title alone to generate_plain_summary
\* (boe_text keeps its default "") and the summary it stored to the others.
PromptOf(req, doc) ==
    LET title == Get(doc, "title_original", <<>>) IN
    IF req = "summary" THEN UserPrompt(req, title, <<>>)
    ELSE UserPrompt(req, title, doc["summary_plain_es"])

\* the system_prompt literal of a generation function, as the release of the
\* code in force words it
SystemPrompt(req, rel) == <<"system", req, rel>>

\* the messages call_llm sends to the service (lines 102-105)
Payload(req, doc, rel) ==
    [system |-> SystemPrompt(req, rel), user |-> PromptOf(req, doc)]

\* md5 of the user prompt; distinct prompts are taken to hash apart
get_cache_key(prompt) == <<"md5", prompt>>

\* the cache directory: files can be read, files can be written
Conditions == {"sound", "unreadable", "unwritable", "broken"}

Readable(st) == st \in {"sound", "unwritable"}

Writable(st) == st \in {"sound", "unreadable"}

\* a lookup that never finds the file
load_nothing(st, store, cache_key) == Plain(<<>>)

\* None (the falsy empty answer) when the file is missing and when reading it
\* raises: the except branch logs and falls through to return None
load_from_cache(st, store, cache_key) ==
    IF cache_key \in DOMAIN store /\ Readable(st)
    THEN store[cache_key] ELSE Plain(<<>>)

\* a write that replaces the directory by the one new file
save_alone(st, store, cache_key, response) ==
    IF Writable(st) THEN [x \in {cache_key} |-> response] ELSE store

\* open(cache_file, "w") creates or overwrites the file of the key; when the
\* write raises, the except branch logs and the directory is as it was
save_to_cache(st, store, cache_key, response) ==
    IF Writable(st)
    THEN [x \in DOMAIN store \cup {cache_key} |->
            IF x = cache_key THEN response ELSE store[x]]
    ELSE store

\* a save_to_cache without its try/except
write_error_raised(st) == ~Writable(st)

\* whether save_to_cache raises to its caller: never, `except Exception`
\* has no re-raise (lines 88-89)
save_raises(st) == FALSE

\* a test that never takes the cached response
CacheIgnored(req, cached) == FALSE

\* a test that takes whatever load_from_cache returned
CacheTaken(req, cached) == TRUE

\* the `if cached_response:` test, and for the list requests json.loads
CacheUsable(req, cached) ==
    /\ NonEmpty(cached)
    /\ req \in {"keywords", "groups"} => cached.json

Lower(c) == CASE c = "A" -> "a" [] c = "B" -> "b" [] OTHER -> c

RECURSIVE DropSpaces(_)
DropSpaces(s) ==
    IF s = <<>> \/ Head(s) # " " THEN s ELSE DropSpaces(Tail(s))

RECURSIVE TakeWord(_)
TakeWord(s) ==
    IF s = <<>> \/ Head(s) = " " THEN <<>>
    ELSE <<Lower(Head(s))>> \o TakeWord(Tail(s))

\* a split that always yields a first word
SplitHasWord(title) == FALSE

\* title.split() is empty: title.split()[0] raises IndexError
NoWords(title) == DropSpaces(title) = <<>>

\* title.split()[0].lower()
FirstWord(title) == TakeWord(DropSpaces(title))

ErrorSummary(title) == <<"[Error al procesar] ">> \o title

DefaultNotes == <<"Documento oficial del BOE que puede afectar a la ciudadania.">>

\* the except branch of process_document_with_llm for each request
Fallback(req, doc) ==
    CASE req = "summary" -> ErrorSummary(Get(doc, "title_original", <<>>))
      [] req = "keywords" -> <<<<"boe">>, <<Get(doc, "type", "documento")>>>>
      [] req = "groups" -> <<"todos_ciudadanos">>
      [] req = "notes" -> DefaultNotes

\* What a generation function returns for a service response: the value, or
\* raised when the in-function fallback itself raises.
Returned(req, doc, response) ==
    LET title == Get(doc, "title_original", <<>>) IN
    CASE req \in {"summary", "notes"} -> [raised |-> FALSE, val |-> response.val]
      [] req = "keywords" ->
            IF response.json
            THEN [raised |-> FALSE, val |-> Take(response.val, MaxKeywords)]
            ELSE IF NoWords(title)
                 THEN [raised |-> TRUE, val |-> <<>>]
                 ELSE [raised |-> FALSE,
                       val |-> <<FirstWord(title), <<"boe">>, <<"normativa">>>>]
      [] req = "groups" ->
            IF response.json
            THEN [raised |-> FALSE, val |-> Take(response.val, MaxGroups)]
            ELSE [raised |-> FALSE, val |-> <<"todos_ciudadanos">>]

\* save_to_cache is reached for every text response and for a list response
\* only when it parsed
Cached(req, response) ==
    IF req \in {"summary", "notes"} THEN response ELSE Json(response.val)

\* a save that is reached for the text responses only
CachesTextOnly(req, response) == req \in {"summary", "notes"}

Caches(req, response) == req \in {"summary", "notes"} \/ response.json

\* the function returns the service's answer (text, or the list parsed from
\* it) and not its own fallback of lines 213 / 276
FromService(req, response) == req \in {"summary", "notes"} \/ response.json

\* ------------------------------------------------------------------- state
VARIABLES
    disk,              \* path -> [exists, lines]: the JSONL files
    output_is_input,   \* output_file is input_file (the default, and main())
    workers,           \* max_workers of the ThreadPoolExecutor
    run,               \* number of the current invocation
    pc,                \* where the driver's main thread is
    documents,         \* the loaded batch (the dict objects)
    to_process,        \* positions of the selected documents
    skipped,           \* positions of the others
    task,              \* position -> state of its future / worker
    processed_results, \* positions, in as_completed order
    final_docs,        \* positions, after the merge
    cache,             \* CACHE_DIR: cache key -> stored response
    service,           \* the behaviour of the service double
    storage,           \* the condition of the cache directory
    release,           \* the version of the prompt templates in the code
    render,            \* a direct call of generate_plain_summary
    driver,            \* the script that is run on the file
    calls,             \* cache key -> service calls made for that prompt
    faulty,            \* invocations of call_llm that met a failing service
    clock,             \* datetime.now(), read at the grain of one invocation
    hist               \* what the properties need to remember

vars == <<disk, output_is_input, workers, run, pc, documents, to_process,
          skipped, task, processed_results, final_docs, cache, service,
          storage, release, render, driver, calls, faulty, clock, hist>>

NoFile == [exists |-> FALSE, lines |-> <<>>]

File(lines) == [exists |-> TRUE, lines |-> lines]

OutPath == IF output_is_input THEN "inp" ELSE "out"

Idle == [st |-> "none", req |-> 0]

Queued == [st |-> "queued", req |-> 0]

\* a cache that already holds an answer to every request a record of the
\* input sets can render
WarmSummary == Plain(<<"c">>)

WarmCache ==
    LET keys == {get_cache_key(UserPrompt(r, t, IF r = "summary" THEN <<>> ELSE WarmSummary.val)) :
                    r \in Range(Requests), t \in Titles}
    IN [k \in keys |->
          CASE k[2][1] = "summary" -> WarmSummary
            [] k[2][1] = "keywords" -> Json(<<<<"c", "k">>>>)
            [] k[2][1] = "groups" -> Json(<<"familias">>)
            [] k[2][1] = "notes" -> Plain(<<"c", "n">>)]

\* the same directory with the entries of one title only
HalfCache == [k \in {x \in DOMAIN WarmCache : x[2][2] = <<"A">>} |-> WarmCache[k]]

EmptyCache == [k \in {} |-> Plain(<<>>)]

\* the last invocation of call_llm: the failures it met, the requests it
\* made, whether it raised, and what its caller then saved and returned
NoCall ==
    [outage |-> 0, made |-> 0, raised |-> FALSE, fault |-> "none", who |-> 0,
     req |-> "none", key |-> <<>>, from_service |-> FALSE,
     content |-> Plain(<<>>)]

\* the last cache lookup of a worker
NoLookup ==
    [req |-> "none", found |-> FALSE, entry |-> Plain(<<>>), hit |-> FALSE,
     origin |-> 0]

\* input files of up to n records
Batches(n) == UNION {[1..m -> Titles \X Kinds] : m \in 1..n}

\* titles without a word (empty, blank) and a title of two words
OddTitles == {<<>>, <<" ">>, <<"A", " ", "B">>}

OddBatches(n) == UNION {[1..m -> OddTitles \X Kinds] : m \in 1..n}

BatchDocs(b) == [i \in DOMAIN b |-> MakeDoc(i, b[i][1], b[i][2])]

\* The state before the first invocation: an input file, the arguments, the
\* cache directory as earlier work left it, and the service double
\* ("steady": every prompt has one answer and the service is up or down for a
\* whole invocation of call_llm; "free": any answer, any outage).
Configured(batches, in_place, caches, services) ==
    /\ \E b \in batches : disk = [inp |-> File(BatchDocs(b)), out |-> NoFile]
    /\ output_is_input \in in_place
    /\ workers \in 1..MaxWorkers
    /\ cache \in caches
    /\ service \in services
    /\ run = 1
    /\ pc = "start"
    /\ documents = <<>>
    /\ to_process = <<>>
    /\ skipped = <<>>
    /\ task = <<>>
    /\ processed_results = <<>>
    /\ final_docs = <<>>
    /\ calls = [k \in {} |-> 0]
    /\ faulty = 0
    /\ clock = 2
    /\ hist = [loaded |-> <<>>, before |-> NoFile, cache0 |-> cache,
               prev_output |-> NoFile, prev_failed |-> {}, selected |-> {},
               refused |-> {}, gave_up |-> {}, call |-> NoCall,
               exhausted |-> {}, lookup |-> <<>>, wrote |-> <<>>,
               origin |-> [k \in DOMAIN cache |-> 1],
               submitted |-> <<>>, replay |-> FALSE]

\* no direct call of generate_plain_summary
NoRender ==
    [st |-> "none", title |-> <<>>, boe_text |-> <<>>, max_chars |-> 0,
     user_prompt |-> <<>>]

\* the condition of the cache directory and the release of the code
Deployed(conditions, releases) ==
    /\ storage \in conditions
    /\ release \in releases
    /\ render = NoRender
    /\ driver = "parallel"

\* main() of process_with_llm_parallel.py: the file is rewritten in place
Init ==
    /\ Configured(Batches(MaxDocs), {TRUE}, {EmptyCache}, {"steady"})
    /\ Deployed({"sound"}, {1})

\* two records against a service that may answer anything
InitRace ==
    /\ Configured(Batches(MaxPair), {TRUE}, {EmptyCache}, {"free"})
    /\ Deployed({"sound"}, {1})

\* a separate output path, so that a second invocation reads the same input,
\* and a cache that earlier runs filled, under the release that filled it or
\* under a later one whose system prompts were reworded
InitRerun ==
    /\ Configured(Batches(MaxPair), {FALSE}, {WarmCache, HalfCache}, {"steady"})
    /\ Deployed({"sound"}, {1, 2})

\* a service double that answers every request with text that is not JSON,
\* or with a message without content, and records whose title may be empty
InitMalformed ==
    /\ Configured(OddBatches(MaxPair), {TRUE}, {EmptyCache}, {"garbled"})
    /\ Deployed({"sound"}, {1})

\* scraped records whose texts differ
TextKinds == {"text", "other"}

TextBatches(n) == UNION {[1..m -> Titles \X TextKinds] : m \in 1..n}

\* two records with a text each, alike or not in title and in text, against a
\* service that may answer anything
InitSameTitle ==
    /\ Configured(TextBatches(MaxPair), {TRUE}, {EmptyCache}, {"free"})
    /\ Deployed({"sound"}, {1})

\* a cache directory that earlier runs filled and that may since have become
\* unreadable, read-only or both
InitFailOpen ==
    /\ Configured(Batches(MaxPair), {FALSE}, {WarmCache, HalfCache}, {"steady"})
    /\ Deployed(Conditions, {1})

\* texts of up to MaxText characters
Texts == UNION {[1..n -> {"a", "b"}] : n \in 0..MaxText}

\* generate_plain_summary called with a title, a text and a budget
InitExcerpt ==
    /\ Configured(Batches(1), {TRUE}, {EmptyCache}, {"steady"})
    /\ storage = "sound"
    /\ release = 1
    /\ driver = "parallel"
    /\ \E text \in Texts, budget \in 0..MaxBudget :
          render = [st |-> "args", title |-> <<"A">>, boe_text |-> text,
                    max_chars |-> budget, user_prompt |-> <<>>]

\* lines 134-148 of generate_plain_summary: the excerpt and the user prompt
RenderSummary ==
    /\ render.st = "args"
    /\ render' = [render EXCEPT
                     !.st = "rendered",
                     !.user_prompt = SummaryPrompt(render.title, render.boe_text,
                                                   render.max_chars)]
    /\ UNCHANGED <<disk, output_is_input, workers, run, pc, documents,
                   to_process, skipped, task, processed_results, final_docs,
                   cache, service, storage, release, driver, calls, faulty,
                   clock, hist>>

NextExcerpt == RenderSummary

\* ------------------------------------------------------------ Work Selector
\* a selector that looks at the text only
EligibleByText(doc) == Has(doc, "full_text") /\ doc["full_text"] # <<>>

\* a selector that takes a record again when its stamp is old
EligibleOrStale(doc) ==
    /\ Has(doc, "full_text") /\ doc["full_text"] # <<>>
    /\ Has(doc, "updated_at") => doc["updated_at"] < 2

\* doc.get("full_text") and not doc.get("updated_at")
Eligible(doc) ==
    /\ Has(doc, "full_text") /\ doc["full_text"] # <<>>
    /\ ~Has(doc, "updated_at")

RECURSIVE Select(_, _, _)
\* the positions from i on whose document satisfies keep, in list order
Select(docs, i, keep) ==
    IF i > Len(docs) THEN <<>>
    ELSE (IF Eligible(docs[i]) = keep THEN <<i>> ELSE <<>>)
            \o Select(docs, i + 1, keep)

\* a driver without the early return of lines 70-72
LoadWithoutReturn ==
    /\ driver = "parallel"
    /\ pc = "start"
    /\ LET docs == disk["inp"].lines
           sel == Select(docs, 1, TRUE)
       IN /\ documents' = docs
          /\ to_process' = sel
          /\ skipped' = Select(docs, 1, FALSE)
          /\ task' = [i \in DOMAIN docs |-> IF Eligible(docs[i]) THEN Queued ELSE Idle]
          /\ pc' = "pool"
          /\ hist' = [hist EXCEPT !.loaded = docs, !.before = disk[OutPath],
                                  !.selected = Range(sel),
                                  !.lookup = [i \in DOMAIN docs |-> NoLookup],
                                  !.wrote = [i \in DOMAIN docs |-> {}],
                                  !.submitted = [i \in DOMAIN docs |-> 0]]
    /\ processed_results' = <<>>
    /\ final_docs' = <<>>
    /\ UNCHANGED <<disk, output_is_input, workers, service, storage, release,
                   render, driver, run, cache, calls, faulty, clock>>

\* lines 47-80: load the file, partition it, return early or submit one
\* future per selected document
Load ==
    /\ driver = "parallel"
    /\ pc = "start"
    /\ LET docs == disk["inp"].lines
           sel == Select(docs, 1, TRUE)
       IN /\ documents' = docs
          /\ to_process' = sel
          /\ skipped' = Select(docs, 1, FALSE)
          /\ task' = [i \in DOMAIN docs |-> IF Eligible(docs[i]) THEN Queued ELSE Idle]
          /\ pc' = IF sel = <<>> THEN "returned" ELSE "pool"
          /\ hist' = [hist EXCEPT !.loaded = docs, !.before = disk[OutPath],
                                  !.selected = Range(sel),
                                  !.lookup = [i \in DOMAIN docs |-> NoLookup],
                                  !.wrote = [i \in DOMAIN docs |-> {}],
                                  !.submitted = [i \in DOMAIN docs |-> 0]]
    /\ processed_results' = <<>>
    /\ final_docs' = <<>>
    /\ UNCHANGED <<disk, output_is_input, workers, service, storage, release, render, driver, run, cache, calls, faulty, clock>>

\* ----------------------------------------------------------------- call_llm
\* a stop condition that is one attempt late
stop_after_next_attempt(attempt_number) == attempt_number > RetryAttempts

\* @retry(stop=stop_after_attempt(3)): no further attempt once this holds
stop_after_attempt(attempt_number) == attempt_number >= RetryAttempts

\* the body of call_llm raises when the request raises and also when the
\* message has no content: None.strip() is an AttributeError (line 110)
BodyRaises(fault) == fault \in {"error", "nocontent"}

RECURSIVE Retrying(_, _, _, _)
\* attempt number n of one invocation against a service that fails the first
\* `outage` requests of the invocation in the way `fault` and then answers
\* `response`; @retry has no retry= argument, so any exception of the body
\* is retried
Retrying(n, outage, fault, response) ==
    IF n > outage \/ ~BodyRaises(fault)
    THEN [calls |-> n, raised |-> FALSE, content |-> response]
    ELSE IF stop_after_attempt(n)
         THEN [calls |-> n, raised |-> TRUE, content |-> Plain(<<>>)]
         ELSE Retrying(n + 1, outage, fault, response)

\* how many requests reached the service, and the content returned or the
\* error raised
call_llm(outage, fault, response) == Retrying(1, outage, fault, response)

\* --------------------------------------------------------------- workers
Busy == {i \in DOMAIN task : task[i].st \in {"check", "call"}}

At(i, st) == pc = "pool" /\ i \in DOMAIN task /\ task[i].st = st

ReqOf(i) == Requests[task[i].req]

KeyOf(i) == get_cache_key(PromptOf(ReqOf(i), documents[i]))

Add(bag, k, n) ==
    [x \in DOMAIN bag \cup {k} |->
        IF x = k THEN (IF k \in DOMAIN bag THEN bag[k] ELSE 0) + n ELSE bag[x]]

Finished == [st |-> "finished", req |-> 0]

\* a pool thread takes the oldest queued work item and enters
\* process_single_doc / process_document_with_llm
Start(i) ==
    /\ driver = "parallel"
    /\ At(i, "queued")
    /\ \A j \in 1..(i - 1) : task[j].st # "queued"
    /\ Cardinality(Busy) < workers
    /\ task' = [task EXCEPT ![i] = [st |-> "check", req |-> 1]]
    /\ hist' = [hist EXCEPT !.submitted[i] = @ + 1]
    /\ UNCHANGED <<disk, output_is_input, workers, service, storage, release, render, driver, run, pc, documents, to_process,
                   skipped, processed_results, final_docs, cache, calls,
                   faulty, clock>>

\* workers that all write to the first selected document
ProceedOnFirst(i, value) ==
    LET f == to_process[1]
        d == Put(documents[f], Field(ReqOf(i)), value) IN
    IF task[i].req < Len(Requests)
    THEN /\ documents' = [documents EXCEPT ![f] = d]
         /\ task' = [task EXCEPT ![i] = [st |-> "check", req |-> @.req + 1]]
         /\ clock' = clock
    ELSE /\ documents' = [documents EXCEPT ![f] = Put(d, "updated_at", clock)]
         /\ task' = [task EXCEPT ![i] = Finished]
         /\ clock' = clock

\* doc[field] = value, then the next request or, after the last one,
\* doc["updated_at"] = now and return doc (lines 327-362)
Proceed(i, value) ==
    LET d == Put(documents[i], Field(ReqOf(i)), value) IN
    IF task[i].req < Len(Requests)
    THEN /\ documents' = [documents EXCEPT ![i] = d]
         /\ task' = [task EXCEPT ![i] = [st |-> "check", req |-> @.req + 1]]
         /\ clock' = clock
    ELSE /\ documents' = [documents EXCEPT ![i] = Put(d, "updated_at", clock)]
         /\ task' = [task EXCEPT ![i] = Finished]
         /\ clock' = clock

\* an except branch that stores the error text and goes on to the keywords
ExceptGoesOn(i) == Proceed(i, Fallback(ReqOf(i), documents[i]))

\* a summary except branch that stamps the document before it returns
ExceptStamps(i) ==
    IF ReqOf(i) = "summary"
    THEN /\ documents' = [documents EXCEPT ![i] =
                Put(Put(@, "summary_plain_es", Fallback("summary", @)),
                    "updated_at", clock)]
         /\ task' = [task EXCEPT ![i] = Finished]
         /\ clock' = clock
    ELSE Proceed(i, Fallback(ReqOf(i), documents[i]))

\* except branches that all return the document at once
ExceptReturns(i) ==
    /\ documents' = [documents EXCEPT ![i] =
           Put(@, Field(ReqOf(i)), Fallback(ReqOf(i), @))]
    /\ task' = [task EXCEPT ![i] = Finished]
    /\ clock' = clock

\* a summary except branch after which the document is submitted again
ExceptRequeues(i) ==
    IF ReqOf(i) = "summary"
    THEN /\ documents' = [documents EXCEPT ![i] =
                Put(@, "summary_plain_es", Fallback("summary", @))]
         /\ task' = [task EXCEPT ![i] = Queued]
         /\ clock' = clock
    ELSE Proceed(i, Fallback(ReqOf(i), documents[i]))

\* the except branch of a request of process_document_with_llm: the summary
\* stores its error text and returns the document at once (lines 328-331),
\* the others store their default and go on
Except(i) ==
    IF ReqOf(i) = "summary"
    THEN /\ documents' = [documents EXCEPT ![i] =
                Put(@, "summary_plain_es", Fallback("summary", @))]
         /\ task' = [task EXCEPT ![i] = Finished]
         /\ clock' = clock
    ELSE Proceed(i, Fallback(ReqOf(i), documents[i]))

\* get_cache_key, load_from_cache and the test on the cached response
CheckCache(i) ==
    /\ At(i, "check")
    /\ LET req == ReqOf(i)
           key == KeyOf(i)
           found == key \in DOMAIN cache
           cached == load_from_cache(storage, cache, key)
           hit == CacheUsable(req, cached)
       IN /\ IF hit
             THEN Proceed(i, cached.val)
             ELSE /\ task' = [task EXCEPT ![i] = [@ EXCEPT !.st = "call"]]
                  /\ UNCHANGED <<documents, clock>>
          /\ hist' = [hist EXCEPT
                         !.lookup[i] =
                             [req |-> req, found |-> found,
                              entry |-> IF found THEN cache[key] ELSE Plain(<<>>),
                              hit |-> hit,
                              origin |-> IF found THEN hist.origin[key] ELSE 0],
                         !.wrote[i] = IF hit THEN @ \cup {Field(req)} ELSE @]
    /\ UNCHANGED <<disk, output_is_input, workers, service, storage, release, render, driver, run, pc, to_process, skipped,
                   processed_results, final_docs, cache, calls, faulty>>

\* the rest of a generation function after the cache miss: call_llm with its
\* retries, parse, save_to_cache, return; process_document_with_llm stores
\* the result or runs its except branch
Call(i) ==
    /\ At(i, "call")
    /\ \E outage \in Outages(service), fault \in Faults(service),
          r \in ServiceResponses(service, ReqOf(i)) :
         LET req == ReqOf(i)
             key == KeyOf(i)
             out == call_llm(outage, fault, r)
             ret == Returned(req, documents[i], out.content)
             saves == ~out.raised /\ Caches(req, out.content)
             answered == ~out.raised /\ FromService(req, out.content)
         IN /\ outage > 0 => faulty < MaxFaulty
            /\ faulty' = IF outage > 0 THEN faulty + 1 ELSE faulty
            /\ calls' = Add(calls, key, out.calls)
            /\ hist' = [hist EXCEPT
                           !.refused = IF outage > 0 THEN @ \cup {i} ELSE @,
                           !.gave_up = IF out.raised /\ req = "summary"
                                       THEN @ \cup {i} ELSE @,
                           !.exhausted = IF out.raised THEN @ \cup {<<i, req>>}
                                         ELSE @,
                           !.call = [outage |-> outage, made |-> out.calls,
                                     raised |-> out.raised,
                                     fault |-> IF outage > 0 THEN fault ELSE "none",
                                     who |-> i, req |-> req, key |-> key,
                                     from_service |-> answered,
                                     content |-> IF answered
                                                 THEN Cached(req, out.content)
                                                 ELSE Plain(<<>>)],
                           !.wrote[i] = @ \cup {Field(req)},
                           !.origin = IF saves /\ Writable(storage)
                                      THEN Put(@, key, release) ELSE @]
            /\ IF out.raised
               THEN cache' = cache /\ Except(i)
               ELSE /\ cache' = IF saves
                                THEN save_to_cache(storage, cache, key,
                                                   Cached(req, out.content))
                                ELSE cache
                    /\ IF ret.raised \/ (saves /\ save_raises(storage))
                       THEN Except(i) ELSE Proceed(i, ret.val)
    /\ UNCHANGED <<disk, output_is_input, workers, service, storage, release, render, driver, run, pc, to_process, skipped,
                   processed_results, final_docs>>

\* as_completed yields a finished future; its result is appended (line 86)
Collect(i) ==
    /\ driver = "parallel"
    /\ At(i, "finished")
    /\ processed_results' = Append(processed_results, i)
    /\ task' = [task EXCEPT ![i] = [@ EXCEPT !.st = "collected"]]
    /\ UNCHANGED <<disk, output_is_input, workers, service, storage, release, render, driver, run, pc, documents, to_process,
                   skipped, final_docs, cache, calls, faulty, clock, hist>>

\* --------------------------------------------------------- merge and persist
IdOf(docs, p) == docs[p]["id"]

\* {doc["id"]: doc for doc in processed_results}: the last result of an id wins
processed_map(docs, results) ==
    [id \in {IdOf(docs, results[n]) : n \in DOMAIN results} |->
        LET last == CHOOSE n \in DOMAIN results :
                        /\ IdOf(docs, results[n]) = id
                        /\ \A m \in DOMAIN results :
                              IdOf(docs, results[m]) = id => m <= n
        IN results[last]]

\* the results as they completed, then the records that were not submitted
MergeAsCompleted(docs, results) ==
    LET rest == {i \in DOMAIN docs : i \notin Range(results)}
        nth(k) == CHOOSE i \in rest : Cardinality({j \in rest : j < i}) = k - 1
    IN [i \in DOMAIN docs |->
          IF i <= Len(results) THEN results[i] ELSE nth(i - Len(results))]

\* a merge that keeps only the results that carry a timestamp
MergeDroppingFailed(docs, results) ==
    LET map == processed_map(docs, results)
        kept == {i \in DOMAIN docs :
                    IdOf(docs, i) \in DOMAIN map => Has(docs[i], "updated_at")}
        nth(k) == CHOOSE i \in kept : Cardinality({j \in kept : j < i}) = k - 1
    IN [k \in 1..Cardinality(kept) |-> nth(k)]

\* lines 96-101
MergeResults(docs, results) ==
    LET map == processed_map(docs, results) IN
    [i \in DOMAIN docs |->
        IF IdOf(docs, i) \in DOMAIN map THEN map[IdOf(docs, i)] ELSE i]

\* the executor has shut down and every future was collected: lines 92-101
Merge ==
    /\ driver = "parallel"
    /\ pc = "pool"
    /\ \A i \in DOMAIN task : task[i].st \in {"none", "collected"}
    /\ final_docs' = MergeResults(documents, processed_results)
    /\ pc' = "open"
    /\ UNCHANGED <<disk, output_is_input, workers, service, storage, release, render, driver, run, documents, to_process,
                   skipped, task, processed_results, cache, calls, faulty,
                   clock, hist>>

\* a copy that drops the length along with the text
StrippedWithLength(doc) == Del(Del(doc, "full_text"), "text_length")

\* a write loop that dumps the document as it is
Unstripped(doc) == doc

\* doc.copy() without full_text, as json.dumps writes it (lines 108-111)
Stripped(doc) == Del(doc, "full_text")

\* open(output_file, "w") creates or truncates the file (line 105)
Open ==
    /\ pc = "open"
    /\ disk' = [disk EXCEPT ![OutPath] = File(<<>>)]
    /\ pc' = "write"
    /\ UNCHANGED <<output_is_input, workers, service, storage, release, render, driver, run, documents, to_process, skipped,
                   task, processed_results, final_docs, cache, calls, faulty,
                   clock, hist>>

\* one turn of the loop of lines 106-111; after the last line the file is
\* closed and the function returns
WriteLine ==
    /\ pc = "write"
    /\ LET n == Len(disk[OutPath].lines) + 1 IN
       IF n <= Len(final_docs)
       THEN /\ disk' = [disk EXCEPT ![OutPath] =
                    File(Append(@.lines, Stripped(documents[final_docs[n]])))]
            /\ pc' = pc
       ELSE /\ disk' = disk
            /\ pc' = "done"
    /\ UNCHANGED <<output_is_input, workers, service, storage, release, render, driver, run, documents, to_process, skipped,
                   task, processed_results, final_docs, cache, calls, faulty,
                   clock, hist>>

\* the process is killed, or a write raises OSError, while the file is open
Crash ==
    /\ pc = "write"
    /\ pc' = "crashed"
    /\ UNCHANGED <<disk, output_is_input, workers, service, storage, release, render, driver, run, documents, to_process,
                   skipped, task, processed_results, final_docs, cache, calls,
                   faulty, clock, hist>>

\* the selected records a run left without updated_at
FailedIds ==
    {IdOf(documents, i) : i \in {j \in Range(to_process) :
                                     ~Has(documents[j], "updated_at")}}

\* the command is invoked again with the same arguments
NextRun ==
    /\ pc \in {"done", "returned"}
    /\ run < MaxRuns
    /\ run' = run + 1
    /\ pc' = "start"
    /\ clock' = clock + 1
    /\ hist' = [hist EXCEPT !.prev_output = disk[OutPath],
                            !.prev_failed = FailedIds,
                            !.refused = {}, !.gave_up = {}, !.exhausted = {},
                            !.call = NoCall, !.lookup = <<>>, !.wrote = <<>>,
                            !.submitted = <<>>]
    /\ documents' = <<>>
    /\ to_process' = <<>>
    /\ skipped' = <<>>
    /\ task' = <<>>
    /\ processed_results' = <<>>
    /\ final_docs' = <<>>
    /\ UNCHANGED <<disk, output_is_input, workers, service, storage, release, render, driver, cache, calls,
                   faulty>>

Next ==
    \/ Load
    \/ \E i \in 1..MaxDocs : Start(i)
    \/ \E i \in 1..MaxDocs : CheckCache(i)
    \/ \E i \in 1..MaxDocs : Call(i)
    \/ \E i \in 1..MaxDocs : Collect(i)
    \/ Merge
    \/ Open
    \/ WriteLine
    \/ Crash
    \/ NextRun

\* ------------------------------------------------------ process_with_llm.py
Drivers == {"sequential", "parallel"}

\* process_jsonl_file, lines 35-50: load the file, select, return early when
\* nothing is selected; there is no list of skipped documents
SeqLoad ==
    /\ driver = "sequential"
    /\ pc = "start"
    /\ LET docs == disk["inp"].lines
           sel == Select(docs, 1, TRUE)
       IN /\ documents' = docs
          /\ to_process' = sel
          /\ skipped' = <<>>
          /\ task' = [i \in DOMAIN docs |-> IF Eligible(docs[i]) THEN Queued ELSE Idle]
          /\ pc' = IF sel = <<>> THEN "returned" ELSE "pool"
          /\ hist' = [hist EXCEPT !.loaded = docs, !.before = disk[OutPath],
                                  !.selected = Range(sel),
                                  !.lookup = [i \in DOMAIN docs |-> NoLookup],
                                  !.wrote = [i \in DOMAIN docs |-> {}],
                                  !.submitted = [i \in DOMAIN docs |-> 0]]
    /\ processed_results' = <<>>
    /\ final_docs' = <<>>
    /\ UNCHANGED <<disk, output_is_input, workers, service, storage, release,
                   render, driver, run, cache, calls, faulty, clock>>

\* the loop of lines 53-56 reaches the next selected document and calls
\* process_document_with_llm on it
SeqStart(i) ==
    /\ driver = "sequential"
    /\ At(i, "queued")
    /\ \A j \in DOMAIN task : j # i => task[j].st \in {"none", "queued", "collected"}
    /\ \A j \in 1..(i - 1) : task[j].st # "queued"
    /\ task' = [task EXCEPT ![i] = [st |-> "check", req |-> 1]]
    /\ hist' = [hist EXCEPT !.submitted[i] = @ + 1]
    /\ UNCHANGED <<disk, output_is_input, workers, service, storage, release,
                   render, driver, run, pc, documents, to_process, skipped,
                   processed_results, final_docs, cache, calls, faulty, clock>>

\* processed.append(processed_doc), line 57
SeqAppend(i) ==
    /\ driver = "sequential"
    /\ At(i, "finished")
    /\ processed_results' = Append(processed_results, i)
    /\ task' = [task EXCEPT ![i] = [@ EXCEPT !.st = "collected"]]
    /\ UNCHANGED <<disk, output_is_input, workers, service, storage, release,
                   render, driver, run, pc, documents, to_process, skipped,
                   final_docs, cache, calls, faulty, clock, hist>>

\* lines 62-65: documents[i] = next(d for d in processed if d["id"] ==
\* doc["id"]), the first result of an id wins
SeqMergeResults(docs, results) ==
    [i \in DOMAIN docs |->
        IF \E n \in DOMAIN results : IdOf(docs, results[n]) = IdOf(docs, i)
        THEN results[CHOOSE n \in DOMAIN results :
                        /\ IdOf(docs, results[n]) = IdOf(docs, i)
                        /\ \A m \in DOMAIN results :
                              IdOf(docs, results[m]) = IdOf(docs, i) => n <= m]
        ELSE i]

\* the loop is over: the merge of lines 62-65
SeqMerge ==
    /\ driver = "sequential"
    /\ pc = "pool"
    /\ \A i \in DOMAIN task : task[i].st \in {"none", "collected"}
    /\ final_docs' = SeqMergeResults(documents, processed_results)
    /\ pc' = "open"
    /\ UNCHANGED <<disk, output_is_input, workers, service, storage, release,
                   render, driver, run, documents, to_process, skipped, task,
                   processed_results, cache, calls, faulty, clock, hist>>

Other(d) == IF d = "sequential" THEN "parallel" ELSE "sequential"

\* the cache directory is put back as it was before the run, the output is
\* removed, and the other script is run on the same input
Replay ==
    /\ pc \in {"done", "returned"}
    /\ run < MaxRuns
    /\ ~output_is_input
    /\ ~hist.replay
    /\ run' = run + 1
    /\ pc' = "start"
    /\ clock' = clock + 1
    /\ driver' = Other(driver)
    /\ cache' = hist.cache0
    /\ disk' = [disk EXCEPT !["out"] = NoFile]
    /\ hist' = [hist EXCEPT !.prev_output = disk[OutPath],
                            !.prev_failed = FailedIds,
                            !.refused = {}, !.gave_up = {}, !.exhausted = {},
                            !.call = NoCall, !.lookup = <<>>, !.wrote = <<>>,
                            !.submitted = <<>>,
                            !.origin = [k \in DOMAIN hist.cache0 |-> 1],
                            !.replay = TRUE]
    /\ documents' = <<>>
    /\ to_process' = <<>>
    /\ skipped' = <<>>
    /\ task' = <<>>
    /\ processed_results' = <<>>
    /\ final_docs' = <<>>
    /\ UNCHANGED <<output_is_input, workers, service, storage, release, render,
                   calls, faulty>>

NextDrivers ==
    \/ Next
    \/ SeqLoad
    \/ \E i \in 1..MaxDocs : SeqStart(i)
    \/ \E i \in 1..MaxDocs : SeqAppend(i)
    \/ SeqMerge
    \/ Replay

\* either script, in place or to a separate output, against a service whose
\* answer to a prompt is always the same
InitDrivers ==
    /\ Configured(Batches(MaxPair), {TRUE, FALSE}, {EmptyCache, HalfCache},
                  {"steady", "verbose"})
    /\ storage = "sound"
    /\ release = 1
    /\ render = NoRender
    /\ driver \in Drivers

\* ------------------------------------- BOE/generate_short_titles_parallel.py
\* title[:100]
TitleLimit == 100

\* records as the pipeline wrote them: without short_title, with an empty one
\* and with one that an earlier run generated
TitleKinds == {"enriched", "blank", "titled"}

TitleBatches(n) == UNION {[1..m -> Titles \X TitleKinds] : m \in 1..n}

\* lines 49-53: the user prompt, from the title and the summary
TitlePrompt(doc) ==
    <<"short_title", Get(doc, "title_original", <<>>), Get(doc, "summary_plain_es", <<>>)>>

\* get_cache_key("TITLE_GEN_" + user_prompt), line 56
TitleKey(doc) == get_cache_key(<<"TITLE_GEN_", TitlePrompt(doc)>>)

\* doc.get("short_title") is truthy, line 45
HasShortTitle(doc) == Has(doc, "short_title") /\ doc["short_title"] # <<>>

\* call_llm_json: it raises, or returns the parsed JSON object of the answer,
\* which carries a short_title or does not
call_llm_json ==
    {[raised |-> TRUE, result |-> <<>>],
     [raised |-> FALSE, result |-> [short_title |-> <<"t">>]],
     [raised |-> FALSE, result |-> <<>>]}

\* result.get("short_title", title[:100]), lines 61 and 65
ShortTitleOf(result, doc) ==
    IF "short_title" \in DOMAIN result THEN result["short_title"]
    ELSE Take(Get(doc, "title_original", <<>>), TitleLimit)

\* the except branch, line 75
TitleFallback(doc) == Take(Get(doc, "title_original", <<>>), TitleLimit)

\* lines 84-98: load the file and submit every document
TitleLoad ==
    /\ driver = "titles"
    /\ pc = "start"
    /\ LET docs == disk["inp"].lines
       IN /\ documents' = docs
          /\ to_process' = [i \in DOMAIN docs |-> i]
          /\ task' = [i \in DOMAIN docs |-> Queued]
          /\ hist' = [hist EXCEPT !.loaded = docs, !.before = disk[OutPath],
                                  !.selected = DOMAIN docs,
                                  !.lookup = [i \in DOMAIN docs |-> NoLookup],
                                  !.wrote = [i \in DOMAIN docs |-> {}],
                                  !.submitted = [i \in DOMAIN docs |-> 0]]
    /\ pc' = "pool"
    /\ skipped' = <<>>
    /\ processed_results' = <<>>
    /\ final_docs' = <<>>
    /\ UNCHANGED <<disk, output_is_input, workers, service, storage, release,
                   render, driver, run, cache, calls, faulty, clock>>

\* a start that leaves out the documents that have a short title
TitleStartSkipping(i) ==
    /\ driver = "titles"
    /\ At(i, "queued")
    /\ \A j \in 1..(i - 1) : task[j].st # "queued"
    /\ Cardinality(Busy) < workers
    /\ task' = [task EXCEPT ![i] =
                    IF HasShortTitle(documents[i])
                    THEN [st |-> "collected", req |-> 0]
                    ELSE [st |-> "check", req |-> 0]]
    /\ hist' = [hist EXCEPT !.submitted[i] = @ + 1]
    /\ UNCHANGED <<disk, output_is_input, workers, service, storage, release,
                   render, driver, run, pc, documents, to_process, skipped,
                   processed_results, final_docs, cache, calls, faulty, clock>>

\* a pool thread enters generate_title_for_doc: a document that has a short
\* title is returned as it is (lines 45-46)
TitleStart(i) ==
    /\ driver = "titles"
    /\ At(i, "queued")
    /\ \A j \in 1..(i - 1) : task[j].st # "queued"
    /\ Cardinality(Busy) < workers
    /\ task' = [task EXCEPT ![i] =
                    IF HasShortTitle(documents[i]) THEN Finished
                    ELSE [st |-> "check", req |-> 0]]
    /\ hist' = [hist EXCEPT !.submitted[i] = @ + 1]
    /\ UNCHANGED <<disk, output_is_input, workers, service, storage, release,
                   render, driver, run, pc, documents, to_process, skipped,
                   processed_results, final_docs, cache, calls, faulty, clock>>

\* lines 56-61: the cache lookup; a cached answer is parsed and used
TitleCheck(i) ==
    /\ driver = "titles"
    /\ At(i, "check")
    /\ LET key == TitleKey(documents[i])
           found == key \in DOMAIN cache
           cached == load_from_cache(storage, cache, key)
           hit == NonEmpty(cached)
       IN /\ IF hit
             THEN /\ documents' = [documents EXCEPT ![i] =
                         Put(@, "short_title", ShortTitleOf(cached.val, @))]
                  /\ task' = [task EXCEPT ![i] = Finished]
             ELSE /\ task' = [task EXCEPT ![i] = [@ EXCEPT !.st = "call"]]
                  /\ documents' = documents
          /\ hist' = [hist EXCEPT
                         !.lookup[i] =
                             [req |-> "short_title", found |-> found,
                              entry |-> IF found THEN cache[key] ELSE Plain(<<>>),
                              hit |-> hit,
                              origin |-> IF found THEN hist.origin[key] ELSE 0],
                         !.wrote[i] = IF hit THEN @ \cup {"short_title"} ELSE @]
    /\ UNCHANGED <<disk, output_is_input, workers, service, storage, release,
                   render, driver, run, pc, to_process, skipped,
                   processed_results, final_docs, cache, calls, faulty, clock>>

\* lines 63-76: call_llm_json, the short title, save_to_cache; any exception
\* stores the start of the original title
TitleCall(i) ==
    /\ driver = "titles"
    /\ At(i, "call")
    /\ \E out \in call_llm_json :
         LET key == TitleKey(documents[i]) IN
         /\ calls' = Add(calls, key, 1)
         /\ IF out.raised
            THEN /\ cache' = cache
                 /\ documents' = [documents EXCEPT ![i] =
                        Put(@, "short_title", TitleFallback(@))]
                 /\ hist' = [hist EXCEPT !.wrote[i] = @ \cup {"short_title"},
                                         !.gave_up = @ \cup {i}]
            ELSE /\ cache' = save_to_cache(storage, cache, key, Json(out.result))
                 /\ documents' = [documents EXCEPT ![i] =
                        Put(@, "short_title", ShortTitleOf(out.result, @))]
                 /\ hist' = [hist EXCEPT
                                !.wrote[i] = @ \cup {"short_title"},
                                !.origin = IF Writable(storage)
                                           THEN Put(@, key, release) ELSE @]
    /\ task' = [task EXCEPT ![i] = Finished]
    /\ UNCHANGED <<disk, output_is_input, workers, service, storage, release,
                   render, driver, run, pc, to_process, skipped,
                   processed_results, final_docs, faulty, clock>>

\* as_completed yields a finished future; its result is appended (lines
\* 100-106)
TitleCollect(i) ==
    /\ driver = "titles"
    /\ At(i, "finished")
    /\ processed_results' = Append(processed_results, i)
    /\ task' = [task EXCEPT ![i] = [@ EXCEPT !.st = "collected"]]
    /\ UNCHANGED <<disk, output_is_input, workers, service, storage, release,
                   render, driver, run, pc, documents, to_process, skipped,
                   final_docs, cache, calls, faulty, clock, hist>>

\* every future was collected; open(output_path, "w"), line 114
TitleOpen ==
    /\ driver = "titles"
    /\ pc = "pool"
    /\ \A i \in DOMAIN task : task[i].st = "collected"
    /\ disk' = [disk EXCEPT ![OutPath] = File(<<>>)]
    /\ pc' = "write"
    /\ UNCHANGED <<output_is_input, workers, service, storage, release, render,
                   driver, run, documents, to_process, skipped, task,
                   processed_results, final_docs, cache, calls, faulty, clock,
                   hist>>

\* one turn of the loop of lines 115-116: the results as they were collected,
\* every field of each
TitleWrite ==
    /\ driver = "titles"
    /\ pc = "write"
    /\ LET n == Len(disk[OutPath].lines) + 1 IN
       IF n <= Len(processed_results)
       THEN /\ disk' = [disk EXCEPT ![OutPath] =
                    File(Append(@.lines, documents[processed_results[n]]))]
            /\ pc' = pc
       ELSE /\ disk' = disk
            /\ pc' = "done"
    /\ UNCHANGED <<output_is_input, workers, service, storage, release, render,
                   driver, run, documents, to_process, skipped, task,
                   processed_results, final_docs, cache, calls, faulty, clock,
                   hist>>

NextTitles ==
    \/ TitleLoad
    \/ \E i \in 1..MaxDocs : TitleStart(i)
    \/ \E i \in 1..MaxDocs : TitleCheck(i)
    \/ \E i \in 1..MaxDocs : TitleCall(i)
    \/ \E i \in 1..MaxDocs : TitleCollect(i)
    \/ TitleOpen
    \/ TitleWrite

\* main of generate_short_titles_parallel.py: --input, --output (another
\* path), --workers
InitTitles ==
    /\ Configured(TitleBatches(MaxDocs), {FALSE}, {EmptyCache}, {"steady"})
    /\ storage = "sound"
    /\ release = 1
    /\ render = NoRender
    /\ driver = "titles"

Spec == Init /\ [][Next]_vars

SpecTitles == InitTitles /\ [][NextTitles]_vars

SpecDrivers == InitDrivers /\ [][NextDrivers]_vars

SpecRace == InitRace /\ [][Next]_vars

SpecSameTitle == InitSameTitle /\ [][Next]_vars

SpecRerun == InitRerun /\ [][Next]_vars

SpecMalformed == InitMalformed /\ [][Next]_vars

SpecFailOpen == InitFailOpen /\ [][Next]_vars

SpecExcerpt == InitExcerpt /\ [][NextExcerpt]_vars

\* ================================================================ properties
OutFile == disk[OutPath]

Written == pc = "done"

\* C1: when process_jsonl_file_parallel has written its output, the ids of
\* the written records are the ids of the loaded records, position by
\* position, whatever the order in which the futures completed.
C1_OutputOrderIsInputOrder ==
    Written =>
        /\ Len(OutFile.lines) = Len(hist.loaded)
        /\ \A n \in DOMAIN hist.loaded :
              OutFile.lines[n]["id"] = hist.loaded[n]["id"]

\* the futures of two records completed against the input order
C1_Witness ==
    /\ Written
    /\ \E m, n \in DOMAIN processed_results :
          m < n /\ processed_results[m] > processed_results[n]

FullyEnriched(doc) ==
    /\ Has(doc, "summary_plain_es")
    /\ doc["summary_plain_es"] \notin
          {Pending(doc["title_original"]), ErrorSummary(doc["title_original"])}
    /\ Has(doc, "keywords") /\ doc["keywords"] # <<<<"boe">>, <<"orden">>>>
    /\ Has(doc, "affects_to")
    /\ Has(doc, "transparency_notes")
    /\ Has(doc, "updated_at")

\* C2: partial failure isolation.  The run ends by writing every loaded
\* record, and every selected record whose own service calls all succeeded is
\* fully enriched in the output, whichever other record's calls failed and
\* however the workers interleaved.
C2_PartialFailureIsolation ==
    Written =>
        /\ Len(OutFile.lines) = Len(hist.loaded)
        /\ \A i \in hist.selected \ hist.refused :
              /\ i \in DOMAIN OutFile.lines
              /\ OutFile.lines[i]["id"] = hist.loaded[i]["id"]
              /\ FullyEnriched(OutFile.lines[i])

\* three selected records, the middle one refused by the service on every
\* call, two pool threads
C2_Witness ==
    /\ Written
    /\ workers = 2
    /\ hist.selected = {1, 2, 3}
    /\ hist.gave_up = {2}
    /\ hist.refused = {2}
    /\ FullyEnriched(OutFile.lines[1])
    /\ FullyEnriched(OutFile.lines[3])
    /\ ~Has(OutFile.lines[2], "updated_at")

HasReturned(i) == i \in DOMAIN task /\ task[i].st \in {"finished", "collected"}

C4_FailedRecordSelectedAgain ==
    (run = 2 /\ pc # "start") =>
        \A id \in hist.prev_failed :
            \E p \in Range(to_process) : documents[p]["id"] = id

Count(k) == IF k \in DOMAIN calls THEN calls[k] ELSE 0

SummaryKey(title) == get_cache_key(UserPrompt("summary", title, <<>>))

Ended == pc \in {"done", "returned"}

\* hist.cache0 answers every request the eligible records of the input render
Prepopulated ==
    \A n \in DOMAIN disk["inp"].lines :
        LET d == disk["inp"].lines[n]
            c == hist.cache0
            sk == SummaryKey(d["title_original"])
        IN (Has(d, "full_text") /\ d["full_text"] # <<>> /\ ~Has(d, "updated_at")) =>
              /\ sk \in DOMAIN c
              /\ c[sk].val # <<>>
              /\ \A r \in {"keywords", "groups", "notes"} :
                    LET k == get_cache_key(UserPrompt(r, d["title_original"], c[sk].val))
                    IN k \in DOMAIN c /\ (c[k].json \/ (r = "notes" /\ c[k].val # <<>>))

\* C5 as stated: two invocations on the same input with a cache that holds
\* every needed response write byte-identical files (updated_at included) and
\* call the service not once.
C5_RerunByteIdentical ==
    (run = 2 /\ Ended /\ Prepopulated) =>
        /\ OutFile = hist.prev_output
        /\ DOMAIN calls = {}

SameButStamp(f, g) ==
    /\ f.exists = g.exists
    /\ Len(f.lines) = Len(g.lines)
    /\ \A n \in DOMAIN f.lines :
          /\ Del(f.lines[n], "updated_at") = Del(g.lines[n], "updated_at")
          /\ Has(f.lines[n], "updated_at") <=> Has(g.lines[n], "updated_at")

\* C5 amended: the two files are identical in every field of every record
\* except the value of updated_at, which each invocation sets to its own
\* time, and the service is not called at all.
C5_RerunSameButStamp ==
    (run = 2 /\ Ended /\ Prepopulated) =>
        /\ SameButStamp(OutFile, hist.prev_output)
        /\ DOMAIN calls = {}

C5_Witness ==
    /\ run = 2 /\ Written /\ Prepopulated
    /\ workers = 2
    /\ Cardinality(hist.selected) = 2
    /\ \A i \in hist.selected : Has(OutFile.lines[i], "updated_at")

SameTitle(title) ==
    {i \in hist.selected : hist.loaded[i]["title_original"] = title}

Derived == {"summary_plain_es", "keywords", "affects_to", "transparency_notes"}

\* C6 as stated: with an empty cache and no service failure, two selected
\* records that render the same summary request cause exactly one service
\* call for it, in every interleaving, and end with identical derived fields.
C6_OneCallPerPayload ==
    (Written /\ faulty = 0 /\ hist.cache0 = EmptyCache) =>
        \A t \in Titles : Cardinality(SameTitle(t)) = 2 =>
            /\ Count(SummaryKey(t)) = 1
            /\ \A i, j \in SameTitle(t) : \A f \in Derived :
                  documents[i][f] = documents[j][f]

\* C6 amended: the service is called for that request once by each worker
\* that looked into the cache before a non-empty response was stored there:
\* once or twice in all, once when the pool runs the two records one after
\* the other and the response is not empty; and when it was called once both
\* records carry the same summary.
C6_OneCallPerMiss ==
    (Written /\ faulty = 0 /\ hist.cache0 = EmptyCache) =>
        \A t \in Titles : Cardinality(SameTitle(t)) = 2 =>
            LET n == Count(SummaryKey(t))
                first == CHOOSE i \in SameTitle(t) : \A j \in SameTitle(t) : i <= j
            IN /\ n \in {1, 2}
               /\ n = 1 => \A i, j \in SameTitle(t) :
                              documents[i]["summary_plain_es"] =
                              documents[j]["summary_plain_es"]
               /\ (workers = 1 /\ documents[first]["summary_plain_es"] # <<>>) => n = 1

\* both workers missed the cache and the service gave them different answers
C6_Witness ==
    /\ Written /\ faulty = 0 /\ hist.cache0 = EmptyCache
    /\ hist.selected = {1, 2}
    /\ Cardinality(SameTitle(<<"A">>)) = 2
    /\ Count(SummaryKey(<<"A">>)) = 2
    /\ documents[1]["summary_plain_es"] # documents[2]["summary_plain_es"]

HasText(doc) == "full_text" \in DOMAIN doc /\ Len(doc["full_text"]) > 0

Unstamped(doc) == "updated_at" \notin DOMAIN doc

Increasing(s) == \A m, n \in DOMAIN s : m < n => s[m] < s[n]

\* C7: the Work Selector puts a loaded record in to_process iff its full_text
\* is non-empty and its updated_at is unset, and in skipped otherwise; every
\* record is in exactly one of the two and both keep the input order.
C7_WorkSelector ==
    pc # "start" =>
        /\ \A i \in DOMAIN hist.loaded :
              /\ i \in Range(to_process) <=>
                    (HasText(hist.loaded[i]) /\ Unstamped(hist.loaded[i]))
              /\ i \in Range(skipped) <=> i \notin Range(to_process)
        /\ Range(to_process) \cup Range(skipped) = DOMAIN hist.loaded
        /\ Increasing(to_process)
        /\ Increasing(skipped)

\* a stamped record that still has its text is passed through next to a
\* selected one
C7_Witness ==
    /\ pc = "pool"
    /\ to_process # <<>>
    /\ \E i \in Range(skipped) : HasText(hist.loaded[i]) /\ ~Unstamped(hist.loaded[i])
    /\ \E i \in Range(skipped) : ~HasText(hist.loaded[i])

\* C8 as stated: a record that was not selected is written with exactly the
\* fields and values it had in the input.
C8_PassthroughVerbatim ==
    Written =>
        \A i \in DOMAIN hist.loaded \ hist.selected :
            OutFile.lines[i] = hist.loaded[i]

\* C8 amended: a record that was not selected is written with the fields and
\* values it had in the input, except full_text, which is not written.
C8_PassthroughButText ==
    Written =>
        \A i \in DOMAIN hist.loaded \ hist.selected :
            /\ DOMAIN OutFile.lines[i] = DOMAIN hist.loaded[i] \ {"full_text"}
            /\ \A f \in DOMAIN OutFile.lines[i] :
                  OutFile.lines[i][f] = hist.loaded[i][f]

C8_Witness ==
    /\ Written
    /\ \E i \in DOMAIN hist.loaded \ hist.selected : Has(hist.loaded[i], "full_text")
    /\ \E i \in DOMAIN hist.loaded \ hist.selected : ~Has(hist.loaded[i], "full_text")

\* the complete rewritten batch
NewFile ==
    File([n \in DOMAIN final_docs |-> Del(documents[final_docs[n]], "full_text")])

\* C9: from the moment the output is opened, also after a crash, the output
\* path holds the complete previous file or the complete rewritten batch.
C9_AllOrNothing ==
    pc \in {"write", "crashed", "done"} =>
        OutFile = hist.before \/ OutFile = NewFile

\* C10: one invocation of call_llm makes at most 3 service calls; it stops
\* at the first answer, and after a third failure it raises without a
\* fourth call.
C10_BoundedRetry ==
    LET c == hist.call IN
    c.made > 0 =>
        /\ c.made <= 3
        /\ c.outage < 3 => (c.made = c.outage + 1 /\ ~c.raised)
        /\ c.outage >= 3 => (c.made = 3 /\ c.raised)

\* the service failed three requests in a row and the error was raised
C10_Witness ==
    hist.call.raised /\ hist.call.made = 3 /\ hist.call.outage = 3

Lists == {"keywords", "groups"}

\* C11 as stated: a record for which a request of any kind exhausted its
\* retries is returned without updated_at, and the records whose own calls
\* succeeded are fully enriched.
C11_ExhaustionLeavesUnstamped ==
    /\ \A e \in hist.exhausted :
          HasReturned(e[1]) => ~Has(documents[e[1]], "updated_at")
    /\ Written => \A j \in hist.selected \ hist.refused :
                      FullyEnriched(OutFile.lines[j])

\* C11 amended: exhausting the retries of the summary request leaves the
\* record without updated_at, its summary holding the error text; exhausting
\* the retries of a keywords, groups or notes request stores the default of
\* that field and the record is returned with updated_at set; the records
\* whose own calls succeeded are fully enriched either way.
C11_ExhaustionFailsSummaryOnly ==
    /\ \A e \in hist.exhausted :
          LET i == e[1]
              req == e[2]
              first == hist.loaded[i]
          IN /\ documents[i][Field(req)] =
                   (CASE req = "summary" ->
                           <<"[Error al procesar] ">> \o first["title_original"]
                      [] req = "keywords" -> <<<<"boe">>, <<first["type"]>>>>
                      [] req = "groups" -> <<"todos_ciudadanos">>
                      [] req = "notes" -> DefaultNotes)
             /\ HasReturned(i) =>
                   (Has(documents[i], "updated_at") <=> req # "summary")
    /\ Written => \A j \in hist.selected \ hist.refused :
                      FullyEnriched(OutFile.lines[j])

\* the keywords request of one record exhausted its retries, the record was
\* written with updated_at, and another record was enriched in full
C11_Witness ==
    /\ Written
    /\ \E e \in hist.exhausted :
          /\ e[2] = "keywords"
          /\ Has(OutFile.lines[e[1]], "updated_at")
          /\ \E j \in hist.selected \ {e[1]} : FullyEnriched(OutFile.lines[j])

\* the first answer of the last invocation of call_llm did not have the
\* expected shape: a message without content, or text where a list is expected
FirstAnswerMalformed ==
    LET c == hist.call IN
    \/ c.fault = "nocontent"
    \/ c.made > 0 /\ c.outage = 0 /\ c.req \in Lists /\ ~c.from_service

\* C12: a malformed response is not retried: after an answer that is not
\* JSON where a list is expected, or a message without content, the client
\* makes no further service call for that request.
C12_MalformedNotRetried ==
    FirstAnswerMalformed => hist.call.made = 1

\* every answer of the run was text that is not JSON
AllGarbled == service = "garbled" /\ faulty = 0

ExpectedKeywords(title) ==
    CASE title = <<"A", " ", "B">> -> <<<<"a">>, <<"boe">>, <<"normativa">>>>
      [] title \in {<<>>, <<" ">>} -> <<<<"boe">>, <<"orden">>>>

\* C13: when the service answers every request of a selected record with
\* text that is not JSON, process_document_with_llm returns the record with
\* updated_at set, the text as summary and notes, and the fallback values of
\* keywords (first word of the title, "boe", "normativa"; "boe" and the type
\* when the title has no word) and of affects_to ("todos_ciudadanos").
C13_MalformedFallback ==
    AllGarbled =>
        \A i \in hist.selected : HasReturned(i) =>
            LET d == documents[i] IN
            /\ Has(d, "updated_at")
            /\ d["summary_plain_es"] = <<"n", "o">>
            /\ d["keywords"] = ExpectedKeywords(hist.loaded[i]["title_original"])
            /\ d["affects_to"] = <<"todos_ciudadanos">>
            /\ d["transparency_notes"] = <<"n", "o">>
            /\ hist.exhausted = {}

\* a record with the empty title and one with a two-word title were both
\* written after garbled answers
C13_Witness ==
    /\ AllGarbled /\ Written
    /\ \E i, j \in hist.selected :
          /\ hist.loaded[i]["title_original"] = <<>>
          /\ hist.loaded[j]["title_original"] = <<"A", " ", "B">>
          /\ Has(OutFile.lines[i], "updated_at")
          /\ Has(OutFile.lines[j], "updated_at")

\* a stored response the client takes: a non-empty string that, for the
\* list requests, json.loads accepts
UsableEntry(req, r) == (r.json \/ Len(r.val) > 0) /\ (req \in Lists => r.json)

Looked == {i \in DOMAIN hist.lookup : hist.lookup[i].req # "none"}

\* worker i called the service for the request of its last lookup
CalledFor(i) == hist.call.who = i /\ hist.call.req = hist.lookup[i].req

\* C14 as stated: whenever a cache entry exists for the key of the rendered
\* request, whatever it holds, the lookup is a hit and the worker makes no
\* service call for that request.
C14_HitWheneverFound ==
    \A i \in Looked :
        hist.lookup[i].found =>
            /\ hist.lookup[i].hit
            /\ task[i].st # "call"
            /\ ~CalledFor(i)

\* C14 amended: the lookup is a hit, the cached value is returned and no
\* service call is made for the request exactly when an entry exists, can be
\* read and holds a non-empty response that, for keywords and groups, parses
\* as JSON; an entry holding the empty string is treated as a miss.
C14_HitWhenUsable ==
    \A i \in Looked :
        LET l == hist.lookup[i] IN
        /\ l.hit <=> (l.found /\ Readable(storage) /\ UsableEntry(l.req, l.entry))
        /\ l.hit => /\ task[i].st # "call"
                    /\ ~CalledFor(i)
                    /\ documents[i][Field(l.req)] = l.entry.val

\* one pool thread, two records of one title: the first stored an empty
\* summary, the second found that entry, called the service all the same,
\* and then took the keywords the first had cached
C14_Witness ==
    /\ workers = 1 /\ faulty = 0
    /\ hist.selected = {1, 2}
    /\ Cardinality(SameTitle(<<"A">>)) = 2
    /\ documents[1]["summary_plain_es"] = <<>>
    /\ Count(SummaryKey(<<"A">>)) = 2
    /\ hist.lookup[2].req = "keywords"
    /\ hist.lookup[2].found /\ hist.lookup[2].hit
    /\ ~CalledFor(2)

\* C15 as stated: when a generation function has returned a result obtained
\* from a successful service call, the cache entry of the request's key
\* holds that response.
C15_EntryWrittenBeforeReturn ==
    LET c == hist.call IN
    c.from_service => (c.key \in DOMAIN cache /\ cache[c.key] = c.content)

\* C15 amended: such a function has returned the service's result, and the
\* entry of the key holds that response unless the cache directory could not
\* be written, in which case the directory is as it was.
C15_EntryWrittenUnlessWriteFailed ==
    LET c == hist.call IN
    c.from_service =>
        /\ documents[c.who][Field(c.req)] =
              (CASE c.req = "keywords" -> Take(c.content.val, MaxKeywords)
                 [] c.req = "groups" -> Take(c.content.val, MaxGroups)
                 [] OTHER -> c.content.val)
        /\ storage \in {"sound", "unreadable"} =>
              (c.key \in DOMAIN cache /\ cache[c.key] = c.content)
        /\ storage \in {"unwritable", "broken"} => cache = hist.cache0

\* a parsed keyword list was saved and returned, the directory being sound
C15_Witness ==
    /\ hist.call.from_service /\ hist.call.req = "keywords"
    /\ storage = "sound"
    /\ hist.call.key \notin DOMAIN hist.cache0
    /\ cache[hist.call.key] = Json(<<<<"k", "1">>, <<"k", "2">>>>)

\* C16: a lookup resolves to an entry only if the entry was written for the
\* same payload, system instructions included: an entry written under other
\* system instructions is never taken.
C16_KeyCoversPayload ==
    \A i \in Looked :
        LET l == hist.lookup[i] IN
        l.hit => SystemPrompt(l.req, l.origin) = SystemPrompt(l.req, release)

\* C17 as stated: a step never removes a cache entry nor changes the response
\* it holds.
C17_WriteOnce ==
    [][\A k \in DOMAIN cache : k \in DOMAIN cache' /\ cache'[k] = cache[k]]_vars

\* C17 amended: a step never removes a cache entry; it changes the response
\* of an entry only as the save of a worker whose lookup of that key was a
\* miss (last write wins).
C17_OverwrittenOnlyAfterMiss ==
    [][\A k \in DOMAIN cache :
          /\ k \in DOMAIN cache'
          /\ cache'[k] # cache[k] =>
                \E i \in DOMAIN task :
                    /\ task[i].st = "call" /\ task'[i].st # "call"
                    /\ KeyOf(i) = k
                    /\ ~hist.lookup[i].hit]_vars

\* two workers missed the summary of title A, the service answered r1 to one
\* and r2 to the other, and the entry that held r1 now holds r2
C17_Witness ==
    /\ faulty = 0
    /\ Count(SummaryKey(<<"A">>)) = 2
    /\ SummaryKey(<<"A">>) \in DOMAIN cache
    /\ cache[SummaryKey(<<"A">>)] = Plain(<<"r", "2">>)
    /\ \E i \in hist.selected :
          /\ HasReturned(i)
          /\ documents[i]["title_original"] = <<"A">>
          /\ documents[i]["summary_plain_es"] = <<"r", "1">>

\* C18: when the cache directory cannot be read every lookup is a miss, when
\* it cannot be written the save leaves it as it was, and in both cases the
\* request goes to the service, no exception reaches
\* process_document_with_llm and the service's result is stored in the record.
C18_CacheFailsOpen ==
    /\ storage \in {"unreadable", "broken"} =>
          \A i \in Looked : ~hist.lookup[i].hit
    /\ storage \in {"unwritable", "broken"} => cache = hist.cache0
    /\ (storage # "sound" /\ faulty = 0) =>
          /\ hist.exhausted = {}
          /\ \A i \in hist.selected : HasReturned(i) =>
                /\ Has(documents[i], "updated_at")
                /\ documents[i]["summary_plain_es"] \in {<<"r", "1">>, <<"c">>}
                /\ storage \in {"unreadable", "broken"} =>
                      /\ documents[i]["summary_plain_es"] = <<"r", "1">>
                      /\ documents[i]["keywords"] = <<<<"k", "1">>, <<"k", "2">>>>
                      /\ documents[i]["affects_to"] = <<"empresas">>
                      /\ documents[i]["transparency_notes"] = <<"w">>

\* the directory held every answer but could be neither read nor written:
\* the records were enriched from the service and written
C18_Witness ==
    /\ Written /\ faulty = 0
    /\ storage = "broken"
    /\ hist.cache0 = WarmCache
    /\ hist.selected # {}
    /\ \A i \in hist.selected : FullyEnriched(OutFile.lines[i])
    /\ DOMAIN calls # {}

\* C19: the excerpt that generate_plain_summary places in the user prompt is
\* the first min(len(text), budget) characters of the text, for every text
\* and every budget of zero or more characters: a text of budget-1 or budget
\* characters is passed whole, one of budget+1 is cut to budget characters.
C19_ExcerptIsPrefix ==
    render.st = "rendered" =>
        LET text == render.boe_text
            budget == render.max_chars
            excerpt == render.user_prompt[3]
            n == IF Len(text) < budget THEN Len(text) ELSE budget
        IN /\ Len(excerpt) = n
           /\ \A j \in 1..n : excerpt[j] = text[j]
           /\ Len(text) \in {budget - 1, budget} => excerpt = text
           /\ Len(text) = budget + 1 => Len(excerpt) = budget

\* a text one character longer than a budget of MaxBudget was cut
C19_Witness ==
    /\ render.st = "rendered"
    /\ render.max_chars = MaxBudget
    /\ Len(render.boe_text) = render.max_chars + 1
    /\ Len(render.user_prompt[3]) = render.max_chars

\* C20: in the file a run wrote, a record has updated_at iff it was loaded
\* with it or the run wrote all four enrichment fields of it; a record
\* without updated_at has the placeholder or the error text as summary, the
\* placeholder keywords and affects_to, and no transparency_notes.
C20_EnrichedIffStamped ==
    Written =>
        \A n \in DOMAIN OutFile.lines :
            LET d == OutFile.lines[n]
                first == hist.loaded[n]
                title == first["title_original"]
            IN /\ Has(d, "updated_at") <=>
                     (Has(first, "updated_at") \/ hist.wrote[n] = Derived)
               /\ ~Has(d, "updated_at") =>
                     /\ d["summary_plain_es"] \in
                           {<<"[Pendiente de procesar] ">> \o title,
                            <<"[Error al procesar] ">> \o title}
                     /\ d["keywords"] = <<<<"boe">>, <<"orden">>>>
                     /\ d["affects_to"] = <<"todos_ciudadanos">>
                     /\ ~Has(d, "transparency_notes")

\* one run wrote a record it enriched, a record whose summary failed and a
\* record it did not select
C20_Witness ==
    /\ Written
    /\ \E a, b, c \in DOMAIN OutFile.lines :
          /\ hist.wrote[a] = Derived /\ Has(OutFile.lines[a], "updated_at")
          /\ hist.wrote[b] = {"summary_plain_es"}
          /\ ~Has(OutFile.lines[b], "updated_at")
          /\ c \notin hist.selected /\ ~Has(OutFile.lines[c], "updated_at")

\* C21: every keyword list that extract_keywords returned to a worker has at
\* most 8 items and every group list that determine_affected_groups
\* returned has at most 3, whether it came from the service or from the
\* cache.
C21_ListsBounded ==
    \A i \in DOMAIN hist.wrote :
        /\ "keywords" \in hist.wrote[i] => Len(documents[i]["keywords"]) <= MaxKeywords
        /\ "affects_to" \in hist.wrote[i] => Len(documents[i]["affects_to"]) <= MaxGroups

\* the records of the loaded batch that carried updated_at when the run began
Completed == {i \in DOMAIN hist.loaded : Has(hist.loaded[i], "updated_at")}

\* the fields of a record that enrichment sets
Enrichment(doc) ==
    [k \in DOMAIN doc \cap (Derived \cup {"updated_at"}) |-> doc[k]]

\* C22: in every run of either driver, a record that carries updated_at when
\* the run loads it is not selected, is never handed to
\* process_document_with_llm, causes no cache lookup and no service call, is
\* not changed in memory, and is written with the enrichment fields and the
\* updated_at it was loaded with.
C22_CompletedNeverRedone ==
    pc # "start" =>
        \A i \in Completed :
            /\ i \notin hist.selected
            /\ hist.submitted[i] = 0
            /\ task[i] = Idle
            /\ hist.lookup[i] = NoLookup
            /\ hist.wrote[i] = {}
            /\ hist.call.who # i
            /\ documents[i] = hist.loaded[i]
            /\ (pc \in {"write", "done", "crashed"} /\ i <= Len(OutFile.lines)) =>
                  Enrichment(OutFile.lines[i]) = Enrichment(hist.loaded[i])
            /\ pc = "returned" => OutFile = hist.before

\* either driver has written a file that holds a record it enriched in this
\* run next to one that was complete when the run began, in a second run
C22_Witness ==
    /\ Written
    /\ run = 2
    /\ driver = "sequential"
    /\ \E i \in Completed, j \in hist.selected :
          /\ Has(documents[j], "updated_at")
          /\ Has(OutFile.lines[i], "updated_at")
          /\ Has(hist.loaded[i], "full_text")

\* C23: when process_file_parallel has written its output, the records are
\* in the order of the input file, whatever the order in which the futures
\* completed.
C23_TitlesInInputOrder ==
    (driver = "titles" /\ Written) =>
        /\ Len(OutFile.lines) = Len(hist.loaded)
        /\ \A n \in DOMAIN OutFile.lines :
              OutFile.lines[n]["id"] = hist.loaded[n]["id"]

\* the fields of document i whose value is not the loaded one
Changed(i) ==
    {k \in DOMAIN documents[i] :
        ~Has(hist.loaded[i], k) \/ documents[i][k] # hist.loaded[i][k]}

\* C24 as stated: while the pool runs, every record of the loaded documents
\* list is as it was loaded.
C24_BatchUntouchedByWorkers == pc = "pool" => documents = hist.loaded

\* C24: from the start of the pool on, a record of the loaded list differs
\* from what was loaded only in fields that its own worker has set and in
\* updated_at; a record that was not selected, or whose worker has not
\* started, is as loaded; no field is removed; and the merge puts at each
\* position the object that was loaded there.
C24_WorkerChangesOwnRecordOnly ==
    (driver = "parallel" /\ pc \in {"pool", "open", "write", "done", "crashed"}) =>
        \A i \in DOMAIN documents :
            /\ (i \notin hist.selected \/ task[i].st = "queued") =>
                  documents[i] = hist.loaded[i]
            /\ DOMAIN hist.loaded[i] \subseteq DOMAIN documents[i]
            /\ Changed(i) \subseteq hist.wrote[i] \cup {"updated_at"}
            /\ "updated_at" \in Changed(i) => HasReturned(i)
            /\ pc # "pool" => final_docs[i] = i

\* the pool is running, a worker that is still at work has already changed
\* its record, another record waits and a third was not selected
C24_Witness ==
    /\ pc = "pool"
    /\ \E i, j, u \in DOMAIN documents :
          /\ task[i].st \in {"check", "call"}
          /\ Changed(i) # {}
          /\ task[j].st \in {"queued", "check"}
          /\ j # i
          /\ u \notin hist.selected

\* the merged record behind line n of the output
Merged(n) == documents[final_docs[n]]

\* C25: in every run of either enrichment driver, each line written so far is
\* the merged record of its position without full_text: it has no full_text
\* field, it has every other field of the merged record and no further one,
\* each with the merged value, text_length included.
C25_OutputStripped ==
    (driver \in Drivers /\ pc \in {"write", "done", "crashed"}) =>
        /\ Len(OutFile.lines) <= Len(final_docs)
        /\ \A n \in DOMAIN OutFile.lines :
              /\ ~Has(OutFile.lines[n], "full_text")
              /\ DOMAIN OutFile.lines[n] = DOMAIN Merged(n) \ {"full_text"}
              /\ \A k \in DOMAIN OutFile.lines[n] : OutFile.lines[n][k] = Merged(n)[k]
              /\ Has(Merged(n), "text_length") =>
                    /\ Has(OutFile.lines[n], "text_length")
                    /\ OutFile.lines[n]["text_length"] = hist.loaded[final_docs[n]]["text_length"]

\* the sequential driver has written, to a separate path, a record that it
\* enriched from a text and a record that it passed through with its text
C25_Witness ==
    /\ Written
    /\ driver = "sequential"
    /\ ~output_is_input
    /\ \E m, n \in DOMAIN OutFile.lines :
          /\ m \in hist.selected
          /\ Has(Merged(m), "full_text") /\ Has(Merged(m), "updated_at")
          /\ OutFile.lines[m]["text_length"] = Len(RawText)
          /\ n \notin hist.selected
          /\ Has(Merged(n), "full_text")

NoDuplicates(s) == \A m, n \in DOMAIN s : s[m] = s[n] => m = n

\* C26: in a run of the parallel driver every selected record is submitted
\* to the pool once and no other record is; a record is collected at most
\* once; when the pool has finished there is one collected result for each
\* selected record, and a record whose summary generation failed was
\* submitted once like the others.
C26_OneOutcomePerSelected ==
    (driver = "parallel" /\ pc # "start") =>
        /\ \A i \in DOMAIN task :
              /\ hist.submitted[i] <= 1
              /\ i \notin hist.selected => hist.submitted[i] = 0
              /\ task[i].st \notin {"none", "queued"} => hist.submitted[i] = 1
              /\ i \in hist.gave_up => hist.submitted[i] = 1
        /\ NoDuplicates(processed_results)
        /\ Range(processed_results) \subseteq hist.selected
        /\ pc \in {"open", "write", "done", "crashed"} =>
              /\ Len(processed_results) = Len(to_process)
              /\ Range(processed_results) = Range(to_process)
              /\ \A i \in hist.selected : hist.submitted[i] = 1

\* the pool has finished with three results, one of them of a worker whose
\* summary generation failed, collected out of submission order
C26_Witness ==
    /\ pc = "open"
    /\ Len(processed_results) = 3
    /\ processed_results[1] > processed_results[2]
    /\ \E i \in hist.gave_up : ~Has(documents[i], "updated_at")

\* no record of the loaded batch has a text and lacks updated_at
NoneEligible ==
    \A i \in DOMAIN hist.loaded :
        ~(HasText(hist.loaded[i]) /\ Unstamped(hist.loaded[i]))

\* C27: when a run of either enrichment driver has loaded a batch in which no
\* record is eligible, it returns: it never opens the output, the output
\* path is as it was before the run (absent if it was absent), the input
\* file still holds the loaded records with their full_text, no record is
\* submitted, and no cache lookup and no service call is made.
C27_NothingEligibleNothingWritten ==
    (driver \in Drivers /\ pc # "start" /\ NoneEligible) =>
        /\ pc = "returned"
        /\ OutFile = hist.before
        /\ disk["inp"] = File(hist.loaded)
        /\ to_process = <<>>
        /\ processed_results = <<>>
        /\ \A i \in DOMAIN task :
              /\ task[i] = Idle
              /\ hist.submitted[i] = 0
              /\ hist.lookup[i] = NoLookup
        /\ hist.call = NoCall
        /\ run = 1 => calls = [k \in {} |-> 0] /\ cache = hist.cache0

\* the sequential driver has returned from a batch that holds a complete
\* record with its text, and the separate output path does not exist
C27_Witness ==
    /\ pc = "returned"
    /\ driver = "sequential"
    /\ ~output_is_input
    /\ ~disk["out"].exists
    /\ \E i \in DOMAIN disk["inp"].lines : Has(disk["inp"].lines[i], "full_text")

\* C28: when one enrichment driver has been run on an input and the other
\* is then run on the same input, from the same cache content and against
\* the same service, which answered every request, the two outputs hold the
\* same records in the same order, equal in every field but the value of
\* updated_at.
C28_DriversEquivalent ==
    (hist.replay /\ Ended /\ faulty = 0) => SameButStamp(OutFile, hist.prev_output)

\* how many records of a list carry the id
Copies(lines, id) == Cardinality({n \in DOMAIN lines : lines[n]["id"] = id})

\* C29: process_file_parallel writes every loaded id as often as it was
\* loaded and no other, also when generate_title_for_doc ran into its except
\* branch; a record that was loaded with a non-empty short_title is never
\* looked up in the cache, causes no call of call_llm_json, is not changed
\* and is written as it was loaded.
C29_TitlesKeepEveryRecord ==
    (driver = "titles" /\ pc # "start") =>
        /\ \A i \in DOMAIN hist.loaded :
              LET id == hist.loaded[i]["id"] IN
              /\ Copies(OutFile.lines, id) <= Copies(hist.loaded, id)
              /\ Written => Copies(OutFile.lines, id) = Copies(hist.loaded, id)
              /\ HasShortTitle(hist.loaded[i]) =>
                    /\ documents[i] = hist.loaded[i]
                    /\ hist.lookup[i] = NoLookup
                    /\ hist.wrote[i] = {}
                    /\ task[i].st \notin {"check", "call"}
                    /\ \A n \in DOMAIN OutFile.lines :
                          OutFile.lines[n]["id"] = id => OutFile.lines[n] = hist.loaded[i]
        /\ \A n \in DOMAIN OutFile.lines :
              \E i \in DOMAIN hist.loaded : OutFile.lines[n]["id"] = hist.loaded[i]["id"]
        /\ Written => Len(OutFile.lines) = Len(hist.loaded)

\* three records were written out of input order: one that had a short
\* title, one whose worker raised and fell back to the original title, and
\* one that got a generated title
C29_Witness ==
    /\ driver = "titles"
    /\ Written
    /\ Len(OutFile.lines) = 3
    /\ OutFile.lines[1]["id"] # hist.loaded[1]["id"]
    /\ \E i \in DOMAIN hist.loaded : HasShortTitle(hist.loaded[i])
    /\ \E i \in hist.gave_up :
          documents[i]["short_title"] = Take(documents[i]["title_original"], TitleLimit)
    /\ \E n \in DOMAIN OutFile.lines : OutFile.lines[n]["short_title"] = <<"t">>

\* two selected records with the same title and different texts
Twins ==
    {p \in hist.selected \X hist.selected :
        /\ p[1] # p[2]
        /\ hist.loaded[p[1]]["title_original"] = hist.loaded[p[2]]["title_original"]
        /\ hist.loaded[p[1]]["full_text"] # hist.loaded[p[2]]["full_text"]}

AboutToLookUpSummary(j) == task[j] = [st |-> "check", req |-> 1]

Enriched(i) == HasReturned(i) /\ Has(documents[i], "updated_at")

\* C30 as stated: once one of two such records is enriched, the other, when
\* it comes to look its summary up, finds the first one's summary in the
\* cache as a usable entry, so it is served without a service call.
C30_SecondServedFromCache ==
    pc = "pool" =>
        \A p \in Twins :
            (Enriched(p[1]) /\ AboutToLookUpSummary(p[2])) =>
                LET key == SummaryKey(hist.loaded[p[1]]["title_original"]) IN
                /\ key \in DOMAIN cache
                /\ cache[key].val # <<>>
                /\ cache[key].val = documents[p[1]]["summary_plain_es"]

\* C30: two selected records with equal titles and different texts render
\* the same summary payload and cache key, whatever their texts.  Once one
\* is enriched the cache holds an entry under that key, which is the first
\* record's summary when the service was asked once for the key; the other
\* record is served from the cache without a service call when the stored
\* text is not empty, and calls the service when it is empty.
C30_SummaryKeyedByTitle ==
    pc = "pool" =>
        \A p \in Twins :
            LET i == p[1]
                j == p[2]
                key == SummaryKey(hist.loaded[i]["title_original"])
            IN /\ Payload("summary", hist.loaded[i], release)
                     = Payload("summary", hist.loaded[j], release)
               /\ get_cache_key(PromptOf("summary", hist.loaded[i])) = key
               /\ get_cache_key(PromptOf("summary", hist.loaded[j])) = key
               /\ Enriched(i) =>
                     /\ key \in DOMAIN cache
                     /\ Count(key) = 1 =>
                           cache[key].val = documents[i]["summary_plain_es"]
               /\ (hist.lookup[j].req = "summary" /\ hist.lookup[j].hit) =>
                     /\ hist.lookup[j].entry.val # <<>>
                     /\ documents[j]["summary_plain_es"] = hist.lookup[j].entry.val
                     /\ task[j] = [st |-> "check", req |-> 2]
                     /\ hist.call.who # j
               /\ (hist.lookup[j].req = "summary" /\ ~hist.lookup[j].hit) =>
                     /\ hist.lookup[j].found => hist.lookup[j].entry.val = <<>>
                     /\ task[j].st = "call" \/ Count(key) >= 1

\* with one worker, the first of two such records is enriched and the second
\* has just taken the first one's summary from the cache, the service having
\* been asked once
C30_Witness ==
    /\ pc = "pool"
    /\ workers = 1
    /\ \E p \in Twins :
          /\ Enriched(p[1])
          /\ hist.lookup[p[2]].req = "summary"
          /\ hist.lookup[p[2]].hit
          /\ documents[p[2]]["summary_plain_es"] = documents[p[1]]["summary_plain_es"]
          /\ Count(SummaryKey(hist.loaded[p[1]]["title_original"])) = 1

============================================================================
